---- MODULE Spec2Model ----
(***************************************************************************)
(* Model of components/GetUserLocation.tsx: a React widget over the        *)
(* browser's Geolocation, Permissions, Clipboard and window.open APIs.     *)
(*                                                                         *)
(* Everything runs on the single UI event thread, so each handler and each *)
(* callback is one atomic action.  A useState setter is modelled as the    *)
(* assignment of the state cell it owns; useRef as a plain cell.           *)
(***************************************************************************)
EXTENDS Integers, Sequences, FiniteSets, TLC

VARIABLES
    \* useState / useRef cells of the component (lines 26-33)
    position, error, loading, watching, permissionState, watchIdRef,
    \* closure variables of the Permissions effect (lines 45-46)
    mounted, permStatus,
    \* component lifecycle: TRUE once React has unmounted the component
    unmounted,
    \* capabilities of the host, probed by the handlers
    geoAvailable, permAvailable, clipAvailable,
    \* navigator.geolocation: the number of outstanding getCurrentPosition
    \* requests, the ids of the active watchPosition subscriptions
    pendingOnce, watches,
    \* navigator.permissions: state of the query promise, whether
    \* handleChange is registered on the PermissionStatus object
    queryState, changeListener,
    \* navigator.clipboard: the texts of the writeText promises in flight;
    \* window.open: the arguments of the latest call
    clipPending, opened,
    \* the most recent handler or callback invocation and its argument
    lastCall

vars == <<position, error, loading, watching, permissionState, watchIdRef,
          mounted, permStatus, unmounted,
          geoAvailable, permAvailable, clipAvailable,
          pendingOnce, watches,
          queryState, changeListener,
          clipPending, opened, lastCall>>

\* everything but lastCall
stateVars == <<position, error, loading, watching, permissionState, watchIdRef,
               mounted, permStatus, unmounted,
               geoAvailable, permAvailable, clipAvailable,
               pendingOnce, watches,
               queryState, changeListener,
               clipPending, opened>>

widgetVars == <<position, error, loading, watching, permissionState, watchIdRef>>
effectVars == <<mounted, permStatus>>
envVars    == <<geoAvailable, permAvailable, clipAvailable>>
geoVars    == <<pendingOnce, watches>>
permVars   == <<queryState, changeListener>>
ioVars     == <<clipPending, opened>>

----------------------------------------------------------------------------
\* Bounds of the model

\* getCurrentPosition requests that may be outstanding at once
MaxPending == 2
\* watchPosition subscriptions that may be active at once
MaxWatches == 2
\* distinct readings the Location Service may report
NumReadings == 2

----------------------------------------------------------------------------
\* Nullable values: `T | null` is <<>> for null and <<v>> for a value

Null == <<>>
Some(v) == <<v>>

\* Coordinates are decimal numbers; they are held as integers counting
\* units of 1/Scale degree (37.7749 is 377749)
Scale == 10 * 10 * 10 * 10

\* The GeolocationPosition objects the service can deliver
ReadingTable ==
    << [coords |-> [latitude |-> 377749, longitude |-> -1224194,
                    accuracy |-> 5, altitude |-> Null,
                    altitudeAccuracy |-> Null, heading |-> Null,
                    speed |-> Null],
        timestamp |-> 1000],
       [coords |-> [latitude |-> -335000, longitude |-> 1510000,
                    accuracy |-> 20, altitude |-> Some(58),
                    altitudeAccuracy |-> Some(3), heading |-> Some(90),
                    speed |-> Some(2)],
        timestamp |-> 2000],
       [coords |-> [latitude |-> 5, longitude |-> -70,
                    accuracy |-> 1, altitude |-> Some(0),
                    altitudeAccuracy |-> Null, heading |-> Some(0),
                    speed |-> Some(0)],
        timestamp |-> 3000],
       [coords |-> [latitude |-> 900000, longitude |-> 0,
                    accuracy |-> 0, altitude |-> Some(-12),
                    altitudeAccuracy |-> Some(1), heading |-> Null,
                    speed |-> Null],
        timestamp |-> 4000] >>

Readings ==
    { ReadingTable[i] :
        i \in 1 .. (IF NumReadings < Len(ReadingTable)
                    THEN NumReadings ELSE Len(ReadingTable)) }

\* The GeolocationPositionError objects the service can deliver; the second
\* one has no message, so that its string form is used
GeoErrors ==
    { [code |-> 1, message |-> "User denied Geolocation"],
      [code |-> 3, message |-> ""] }

PermStates == {"granted", "denied", "prompt"}

NotSupportedMsg == "Geolocation is not supported by your browser."

\* the same options object is passed to both geolocation calls
geoOptions == [enableHighAccuracy |-> TRUE, timeout |-> 10000, maximumAge |-> 0]

----------------------------------------------------------------------------
\* JavaScript conversions used by the handlers

Digit(d) == <<"0", "1", "2", "3", "4", "5", "6", "7", "8", "9">>[d + 1]

RECURSIVE NatToString(_)
NatToString(n) ==
    IF n < 10 THEN Digit(n) ELSE NatToString(n \div 10) \o Digit(n % 10)

\* the w low decimal digits of f, most significant first
RECURSIVE FixedDigits(_, _)
FixedDigits(f, w) ==
    IF w = 0 THEN "" ELSE FixedDigits(f \div 10, w - 1) \o Digit(f % 10)

\* the fraction f / 10^w without its trailing zeros (f > 0)
RECURSIVE FractionDigits(_, _)
FractionDigits(f, w) ==
    IF f % 10 = 0 THEN FractionDigits(f \div 10, w - 1) ELSE FixedDigits(f, w)

\* Number::toString of the number n / Scale, as a template literal applies
\* it: a minus sign for negatives, the integer part, and the shortest
\* fraction; no exponent appears for magnitudes in [1e-6, 1e21)
jsNumberToString(n) ==
    LET a == IF n < 0 THEN -n ELSE n
        ip == a \div Scale
        fp == a % Scale
    IN  (IF n < 0 THEN "-" ELSE "")
        \o NatToString(ip)
        \o (IF fp = 0 THEN "" ELSE "." \o FractionDigits(fp, 4))

\* err.message || String(err)
errorText(err) ==
    IF err.message # "" THEN err.message ELSE "[object GeolocationPositionError]"

\* the PositionState object literal built from a GeolocationPosition
positionState(pos) ==
    [latitude         |-> pos.coords.latitude,
     longitude        |-> pos.coords.longitude,
     accuracy         |-> pos.coords.accuracy,
     altitude         |-> pos.coords.altitude,
     altitudeAccuracy |-> pos.coords.altitudeAccuracy,
     heading          |-> pos.coords.heading,
     speed            |-> pos.coords.speed,
     timestamp        |-> pos.timestamp]

\* `${position.latitude}, ${position.longitude}`
clipboardText(p) ==
    jsNumberToString(p.latitude) \o ", " \o jsNumberToString(p.longitude)

\* variant: the URL is built with the clipboard's ", " separator
mapsUrl_SpaceAfterComma(p) ==
    "https://www.google.com/maps?q=" \o clipboardText(p)

\* `https://www.google.com/maps?q=${latitude},${longitude}`
mapsUrl(p) ==
    "https://www.google.com/maps?q="
    \o jsNumberToString(p.latitude) \o "," \o jsNumberToString(p.longitude)

----------------------------------------------------------------------------
\* State after the first render and the run of the mount effect

Init ==
    /\ position = Null
    /\ error = Null
    /\ loading = FALSE
    /\ watching = FALSE
    /\ permissionState = Null
    /\ watchIdRef = Null
    /\ unmounted = FALSE
    /\ geoAvailable \in BOOLEAN
    /\ permAvailable \in BOOLEAN
    /\ clipAvailable \in BOOLEAN
    \* the effect returns before `let mounted = true` without the
    \* Permissions API; otherwise it has issued the query
    /\ mounted = permAvailable
    /\ permStatus = Null
    /\ queryState = IF permAvailable THEN "pending" ELSE "none"
    /\ changeListener = FALSE
    /\ pendingOnce = 0
    /\ watches = {}
    /\ clipPending = {}
    /\ opened = Null
    /\ lastCall = [op |-> "mount"]

----------------------------------------------------------------------------
\* Location callbacks (lines 73-94).  Neither reads `mounted` nor any other
\* lifecycle flag: they call the setters whenever the service invokes them.

\* variant: the success handler forgets setError(null)
handleSuccess_KeepsError(pos) ==
    /\ position' = Some(positionState(pos))
    /\ loading' = FALSE
    /\ UNCHANGED error

\* variant: the success handler merges the reading into the held Position,
\* keeping a held optional field where the reading has none
handleSuccess_MergesPosition(pos) ==
    /\ position' =
          Some(IF position = Null \/ pos.coords.altitude # Null
               THEN positionState(pos)
               ELSE [positionState(pos) EXCEPT !.altitude = position[1].altitude])
    /\ error' = Null
    /\ loading' = FALSE

handleSuccess(pos) ==
    /\ position' = Some(positionState(pos))
    /\ error' = Null
    /\ loading' = FALSE

\* variant: the failure handler also drops the held Position
handleError_ClearsPosition(err) ==
    /\ error' = Some(errorText(err))
    /\ loading' = FALSE
    /\ position' = Null

\* variant: the failure handler forgets setLoading(false)
handleError_KeepsLoading(err) ==
    /\ error' = Some(errorText(err))
    /\ UNCHANGED <<position, loading>>

handleError(err) ==
    /\ error' = Some(errorText(err))
    /\ loading' = FALSE
    /\ UNCHANGED position

----------------------------------------------------------------------------
\* Event handlers (lines 96-173).  They run in the browser, so
\* `typeof window === "undefined"` is false in each of them.

\* variant: setLoading(true) is called before the capability probe
getOneShot_SetsLoadingFirst ==
    /\ loading' = TRUE
    /\ IF ~geoAvailable
       THEN /\ error' = Some(NotSupportedMsg)
            /\ UNCHANGED pendingOnce
       ELSE /\ pendingOnce < MaxPending
            /\ pendingOnce' = pendingOnce + 1
            /\ UNCHANGED error
    /\ lastCall' = [op |-> "getOneShot"]
    /\ UNCHANGED <<position, watching, permissionState, watchIdRef, watches>>
    /\ UNCHANGED <<effectVars, unmounted, envVars, permVars, ioVars>>

getOneShot ==
    /\ IF ~geoAvailable
       THEN /\ error' = Some(NotSupportedMsg)
            /\ UNCHANGED <<loading, pendingOnce>>
       ELSE /\ pendingOnce < MaxPending
            /\ loading' = TRUE
            /\ pendingOnce' = pendingOnce + 1
            /\ UNCHANGED error
    /\ lastCall' = [op |-> "getOneShot"]
    /\ UNCHANGED <<position, watching, permissionState, watchIdRef, watches>>
    /\ UNCHANGED <<effectVars, unmounted, envVars, permVars, ioVars>>

\* the id watchPosition returns: an opaque number naming the new
\* subscription, distinct from every active one (here the least free one)
watchPosition ==
    CHOOSE id \in 1 .. MaxWatches :
        /\ id \notin watches
        /\ \A j \in 1 .. (id - 1) : j \in watches

\* variant: setWatching(true) is called before the capability probe
startWatching_SetsWatchingFirst ==
    /\ watching' = TRUE
    /\ IF ~geoAvailable
       THEN /\ error' = Some(NotSupportedMsg)
            /\ UNCHANGED <<watchIdRef, watches>>
       ELSE /\ Cardinality(watches) < MaxWatches
            /\ error' = Null
            /\ watches' = watches \cup {watchPosition}
            /\ watchIdRef' = Some(watchPosition)
    /\ lastCall' = [op |-> "startWatching"]
    /\ UNCHANGED <<position, loading, permissionState, pendingOnce>>
    /\ UNCHANGED <<effectVars, unmounted, envVars, permVars, ioVars>>

startWatching ==
    /\ IF ~geoAvailable
       THEN /\ error' = Some(NotSupportedMsg)
            /\ UNCHANGED <<watching, watchIdRef, watches>>
       ELSE /\ Cardinality(watches) < MaxWatches
            /\ error' = Null
            /\ watching' = TRUE
            /\ watches' = watches \cup {watchPosition}
            /\ watchIdRef' = Some(watchPosition)
    /\ lastCall' = [op |-> "startWatching"]
    /\ UNCHANGED <<position, loading, permissionState, pendingOnce>>
    /\ UNCHANGED <<effectVars, unmounted, envVars, permVars, ioVars>>

\* variant: the ref is cleared but clearWatch is not called
stopWatching_KeepsSubscription ==
    /\ IF geoAvailable /\ watchIdRef # Null
       THEN watchIdRef' = Null
       ELSE UNCHANGED watchIdRef
    /\ watching' = FALSE
    /\ lastCall' = [op |-> "stopWatching", had |-> watchIdRef]
    /\ UNCHANGED <<position, error, loading, permissionState, pendingOnce,
                   watches>>
    /\ UNCHANGED <<effectVars, unmounted, envVars, permVars, ioVars>>

\* variant: the subscription is cancelled but the ref keeps the id
stopWatching_KeepsHandle ==
    /\ IF geoAvailable /\ watchIdRef # Null
       THEN watches' = watches \ {watchIdRef[1]}
       ELSE UNCHANGED watches
    /\ watching' = FALSE
    /\ lastCall' = [op |-> "stopWatching", had |-> watchIdRef]
    /\ UNCHANGED <<position, error, loading, permissionState, pendingOnce,
                   watchIdRef>>
    /\ UNCHANGED <<effectVars, unmounted, envVars, permVars, ioVars>>

\* variant: the handler toggles the flag instead of clearing it
stopWatching_Toggles ==
    /\ IF geoAvailable /\ watchIdRef # Null
       THEN /\ watches' = watches \ {watchIdRef[1]}
            /\ watchIdRef' = Null
       ELSE UNCHANGED <<watches, watchIdRef>>
    /\ watching' = ~watching
    /\ lastCall' = [op |-> "stopWatching", had |-> watchIdRef]
    /\ UNCHANGED <<position, error, loading, permissionState, pendingOnce>>
    /\ UNCHANGED <<effectVars, unmounted, envVars, permVars, ioVars>>

stopWatching ==
    /\ IF geoAvailable /\ watchIdRef # Null
       THEN /\ watches' = watches \ {watchIdRef[1]}
            /\ watchIdRef' = Null
       ELSE UNCHANGED <<watches, watchIdRef>>
    /\ watching' = FALSE
    /\ lastCall' = [op |-> "stopWatching", had |-> watchIdRef]
    /\ UNCHANGED <<position, error, loading, permissionState, pendingOnce>>
    /\ UNCHANGED <<effectVars, unmounted, envVars, permVars, ioVars>>

\* variant: no early return; a missing Position is read with ?. and
\* formats as "undefined"
copyToClipboard_NoGuard ==
    /\ IF clipAvailable
       THEN clipPending' = clipPending \cup
                {IF position = Null THEN "undefined, undefined"
                 ELSE clipboardText(position[1])}
       ELSE UNCHANGED clipPending
    /\ lastCall' = [op |-> "copyToClipboard"]
    /\ UNCHANGED opened
    /\ UNCHANGED <<widgetVars, effectVars, unmounted, envVars, geoVars, permVars>>

copyToClipboard ==
    /\ IF position = Null
       THEN UNCHANGED clipPending
       ELSE IF clipAvailable
            THEN clipPending' = clipPending \cup {clipboardText(position[1])}
            \* navigator.clipboard?. short-circuits the whole chain
            ELSE UNCHANGED clipPending
    /\ lastCall' = [op |-> "copyToClipboard"]
    /\ UNCHANGED opened
    /\ UNCHANGED <<widgetVars, effectVars, unmounted, envVars, geoVars, permVars>>

openInMaps ==
    /\ IF position = Null
       THEN UNCHANGED opened
       ELSE opened' = Some([url |-> mapsUrl(position[1]),
                            target |-> "_blank",
                            features |-> "noopener,noreferrer"])
    /\ lastCall' = [op |-> "openInMaps"]
    /\ UNCHANGED clipPending
    /\ UNCHANGED <<widgetVars, effectVars, unmounted, envVars, geoVars, permVars>>

----------------------------------------------------------------------------
\* What the render makes available to the user (lines 180-218)

GetButtonEnabled  == ~loading
\* variant: the Start button is rendered whether or not a watch is on
StartButtonShown_Always == TRUE
StartButtonShown  == ~watching
StopButtonShown   == watching
CopyButtonEnabled == position # Null
MapsButtonEnabled == position # Null

ClickGetCurrentPosition == ~unmounted /\ GetButtonEnabled /\ getOneShot
ClickStartTracking      == ~unmounted /\ StartButtonShown /\ startWatching
ClickStopTracking       == ~unmounted /\ StopButtonShown /\ stopWatching
ClickCopyCoords         == ~unmounted /\ CopyButtonEnabled /\ copyToClipboard
ClickOpenInMaps         == ~unmounted /\ MapsButtonEnabled /\ openInMaps

\* The handlers invoked directly on a mounted widget, whatever is rendered
CallGetOneShot      == ~unmounted /\ getOneShot
CallStartWatching   == ~unmounted /\ startWatching
CallStopWatching    == ~unmounted /\ stopWatching
CallCopyToClipboard == ~unmounted /\ copyToClipboard
CallOpenInMaps      == ~unmounted /\ openInMaps

----------------------------------------------------------------------------
\* The Location Service calling back

OnceSuccess ==
    /\ pendingOnce > 0
    /\ \E pos \in Readings :
          /\ handleSuccess(pos)
          /\ lastCall' = [op |-> "handleSuccess", from |-> "once", arg |-> pos]
    /\ pendingOnce' = pendingOnce - 1
    /\ UNCHANGED <<watching, permissionState, watchIdRef, watches>>
    /\ UNCHANGED <<effectVars, unmounted, envVars, permVars, ioVars>>

\* variant: a failed one-shot request is issued again by the failure path
OnceError_Retries ==
    /\ pendingOnce > 0
    /\ \E err \in GeoErrors :
          /\ error' = Some(errorText(err))
          /\ lastCall' = [op |-> "handleError", from |-> "once", arg |-> err]
    /\ loading' = TRUE
    /\ UNCHANGED <<position, pendingOnce>>
    /\ UNCHANGED <<watching, permissionState, watchIdRef, watches>>
    /\ UNCHANGED <<effectVars, unmounted, envVars, permVars, ioVars>>

OnceError ==
    /\ pendingOnce > 0
    /\ \E err \in GeoErrors :
          /\ handleError(err)
          /\ lastCall' = [op |-> "handleError", from |-> "once", arg |-> err]
    /\ pendingOnce' = pendingOnce - 1
    /\ UNCHANGED <<watching, permissionState, watchIdRef, watches>>
    /\ UNCHANGED <<effectVars, unmounted, envVars, permVars, ioVars>>

WatchSuccess ==
    /\ \E id \in watches, pos \in Readings :
          /\ handleSuccess(pos)
          /\ lastCall' = [op |-> "handleSuccess", from |-> "watch", arg |-> pos]
    /\ UNCHANGED <<watching, permissionState, watchIdRef, geoVars>>
    /\ UNCHANGED <<effectVars, unmounted, envVars, permVars, ioVars>>

\* variant: a failure of the watch also drops the watching flag
WatchError_StopsWatching ==
    /\ \E id \in watches, err \in GeoErrors :
          /\ handleError(err)
          /\ lastCall' = [op |-> "handleError", from |-> "watch", arg |-> err]
    /\ watching' = FALSE
    /\ UNCHANGED <<permissionState, watchIdRef, geoVars>>
    /\ UNCHANGED <<effectVars, unmounted, envVars, permVars, ioVars>>

WatchError ==
    /\ \E id \in watches, err \in GeoErrors :
          /\ handleError(err)
          /\ lastCall' = [op |-> "handleError", from |-> "watch", arg |-> err]
    /\ UNCHANGED <<watching, permissionState, watchIdRef, geoVars>>
    /\ UNCHANGED <<effectVars, unmounted, envVars, permVars, ioVars>>

----------------------------------------------------------------------------
\* The Permissions effect (lines 36-71)

\* the "change" listener; state is permStatus.state as the event finds it
handleChange(state) ==
    IF ~mounted \/ permStatus = Null
    THEN UNCHANGED permissionState
    ELSE permissionState' = Some(state)

\* .then of the query, with perm.state = state
\* variant: the .then callback does not look at `mounted`
queryThen_NoMountedCheck(state) ==
    /\ permStatus' = Some("PermissionStatus")
    /\ permissionState' = Some(state)
    /\ changeListener' = TRUE

queryThen(state) ==
    IF ~mounted
    THEN UNCHANGED <<permStatus, permissionState, changeListener>>
    ELSE /\ permStatus' = Some("PermissionStatus")
         /\ permissionState' = Some(state)
         /\ changeListener' = TRUE

QueryResolved ==
    /\ queryState = "pending"
    /\ queryState' = "resolved"
    /\ \E state \in PermStates :
          /\ queryThen(state)
          /\ lastCall' = [op |-> "queryThen", arg |-> state]
    /\ UNCHANGED <<position, error, loading, watching, watchIdRef>>
    /\ UNCHANGED <<mounted, unmounted, envVars, geoVars, ioVars>>

\* .catch of the query: nothing
\* variant: a rejected query is shown as a denied permission
QueryRejected_SetsDenied ==
    /\ queryState = "pending"
    /\ queryState' = "rejected"
    /\ permissionState' = Some("denied")
    /\ lastCall' = [op |-> "queryCatch"]
    /\ UNCHANGED <<position, error, loading, watching, watchIdRef>>
    /\ UNCHANGED <<effectVars, unmounted, envVars, geoVars, changeListener, ioVars>>

QueryRejected ==
    /\ queryState = "pending"
    /\ queryState' = "rejected"
    /\ lastCall' = [op |-> "queryCatch"]
    /\ UNCHANGED <<widgetVars, effectVars, unmounted, envVars, geoVars,
                   changeListener, ioVars>>

\* The permission changes to another state while handleChange is registered
\* on the PermissionStatus object, which dispatches "change" to it
PermissionChange ==
    /\ changeListener
    /\ \E state \in PermStates :
          /\ Some(state) # permissionState
          /\ handleChange(state)
          /\ lastCall' = [op |-> "handleChange", arg |-> state]
    /\ UNCHANGED <<position, error, loading, watching, watchIdRef>>
    /\ UNCHANGED <<effectVars, unmounted, envVars, geoVars, permVars, ioVars>>

\* the cleanup the effect returned
effectCleanup ==
    /\ mounted' = FALSE
    /\ changeListener' = IF permStatus # Null THEN FALSE ELSE changeListener

\* React unmounts the component and runs the effect's cleanup, if the
\* effect returned one
Unmount ==
    /\ ~unmounted
    /\ unmounted' = TRUE
    /\ IF permAvailable
       THEN effectCleanup
       ELSE UNCHANGED <<mounted, changeListener>>
    /\ lastCall' = [op |-> "unmount"]
    /\ UNCHANGED <<widgetVars, permStatus, envVars, geoVars, queryState, ioVars>>

----------------------------------------------------------------------------
\* The Clipboard Service settling a writeText promise (lines 152-165)

\* .then: the service has put the text on the clipboard
ClipboardResolved ==
    /\ \E text \in clipPending :
          /\ clipPending' = clipPending \ {text}
          /\ lastCall' = [op |-> "writeTextThen", arg |-> text]
    /\ UNCHANGED <<widgetVars, effectVars, unmounted, envVars, geoVars,
                   permVars, opened>>

\* .catch: the textarea fallback copies the text with execCommand
ClipboardRejected ==
    /\ \E text \in clipPending :
          /\ clipPending' = clipPending \ {text}
          /\ lastCall' = [op |-> "writeTextCatch", arg |-> text]
    /\ UNCHANGED <<widgetVars, effectVars, unmounted, envVars, geoVars,
                   permVars, opened>>

----------------------------------------------------------------------------

Callbacks ==
    \/ OnceSuccess
    \/ OnceError
    \/ WatchSuccess
    \/ WatchError
    \/ QueryResolved
    \/ QueryRejected
    \/ PermissionChange
    \/ ClipboardResolved
    \/ ClipboardRejected
    \/ Unmount

\* The widget as the user drives it through the rendered controls
Next ==
    \/ ClickGetCurrentPosition
    \/ ClickStartTracking
    \/ ClickStopTracking
    \/ ClickCopyCoords
    \/ ClickOpenInMaps
    \/ Callbacks

Spec == Init /\ [][Next]_vars

\* The widget with a Location Service that answers every one-shot request:
\* getCurrentPosition calls one of its two callbacks, at the latest when the
\* timeout of geoOptions expires
SpecFair == Spec /\ WF_vars(OnceSuccess \/ OnceError)

\* The handlers driven directly
NextDirect ==
    \/ CallGetOneShot
    \/ CallStartWatching
    \/ CallStopWatching
    \/ CallCopyToClipboard
    \/ CallOpenInMaps
    \/ Callbacks

SpecDirect == Init /\ [][NextDirect]_vars

----------------------------------------------------------------------------
\* Properties

\* C1: once the widget is unmounted, no step changes position, error or
\* loading: a location callback arriving after teardown writes nothing.
C1_NoWriteAfterTeardown ==
    [][unmounted =>
         /\ position' = position
         /\ error' = error
         /\ loading' = loading]_vars

\* C2: at most one tracking subscription is active at the Location Service,
\* and an active one is the one whose id the widget holds; StartTracking
\* cannot leave an earlier subscription active beside a new one.
C2_AtMostOneTrackingSession ==
    /\ Cardinality(watches) <= 1
    /\ \A id \in watches : watchIdRef = Some(id)

\* a session is active, started by the latest call, and the Start control
\* is not offered
C2_Witness ==
    /\ lastCall.op = "startWatching"
    /\ watches # {}
    /\ ~StartButtonShown

\* C3: loading is true only while a one-shot request is outstanding.
C3_LoadingImpliesOutstanding ==
    loading => pendingOnce > 0

\* loading is true with two requests outstanding beside a tracking session:
\* a tracking reading cleared loading and RequestOnce was invoked again
C3_Witness ==
    /\ loading
    /\ pendingOnce > 1
    /\ watches # {}
    /\ position # Null

\* C4: watching is true exactly when the widget holds a session handle.
C4_WatchingMirrorsHandle ==
    watching <=> watchIdRef # Null

\* a failure callback has just run while a session is held
C4_Witness ==
    /\ lastCall.op = "handleError"
    /\ watching
    /\ watchIdRef # Null

\* C5: StopTracking with no handle held leaves watching false, cancels
\* nothing and sets no error; and a StopTracking that directly follows a
\* StopTracking changes nothing.
C5_StopTrackingIdempotent ==
    [][/\ (lastCall'.op = "stopWatching" /\ watchIdRef = Null) =>
              /\ ~watching
              /\ watching' = FALSE
              /\ watches' = watches
              /\ watchIdRef' = Null
              /\ error' = error
       /\ (lastCall.op = "stopWatching" /\ lastCall'.op = "stopWatching") =>
              UNCHANGED stateVars]_vars

\* StopTracking has just run on a widget that held no handle, with the
\* Location Service available and a Position already held
C5_Witness ==
    /\ lastCall = [op |-> "stopWatching", had |-> Null]
    /\ geoAvailable
    /\ ~watching
    /\ position # Null

\* C6: with the Location Service unavailable, StartTracking sets the
\* not-supported error, leaves watching false, stores no handle and creates
\* no subscription.
C6_StartTrackingUnavailable ==
    (lastCall.op = "startWatching" /\ ~geoAvailable) =>
        /\ error = Some("Geolocation is not supported by your browser.")
        /\ ~watching
        /\ watchIdRef = Null
        /\ watches = {}

C6_Witness ==
    /\ lastCall.op = "startWatching"
    /\ ~geoAvailable
    /\ error # Null

\* C7: error is absent right after every successful location callback and
\* right after every StartTracking that begins a watch.
C7_ErrorClearedOnSuccessAndStart ==
    /\ lastCall.op = "handleSuccess" => error = Null
    /\ (lastCall.op = "startWatching" /\ geoAvailable) => error = Null

\* a tracking reading has just been delivered
C7_Witness ==
    /\ lastCall.op = "handleSuccess"
    /\ lastCall.from = "watch"
    /\ error = Null

\* C8: right after a successful location callback the held Position has
\* exactly the eight fields of the reading the callback reported.
C8_PositionEqualsReading ==
    lastCall.op = "handleSuccess" =>
        /\ position # Null
        /\ DOMAIN position[1] =
              {"latitude", "longitude", "accuracy", "altitude",
               "altitudeAccuracy", "heading", "speed", "timestamp"}
        /\ position[1].latitude = lastCall.arg.coords.latitude
        /\ position[1].longitude = lastCall.arg.coords.longitude
        /\ position[1].accuracy = lastCall.arg.coords.accuracy
        /\ position[1].altitude = lastCall.arg.coords.altitude
        /\ position[1].altitudeAccuracy = lastCall.arg.coords.altitudeAccuracy
        /\ position[1].heading = lastCall.arg.coords.heading
        /\ position[1].speed = lastCall.arg.coords.speed
        /\ position[1].timestamp = lastCall.arg.timestamp

\* the reading without optional fields has just been stored
C8_Witness ==
    /\ lastCall.op = "handleSuccess"
    /\ lastCall.arg = ReadingTable[1]
    /\ position # Null
    /\ position[1].altitude = Null

\* C9: with no Position held, CopyCoordinates and OpenInMapViewer issue no
\* clipboard write, open nothing and change no state.
C9_NoPositionNoOp ==
    [][(position = Null /\ lastCall'.op \in {"copyToClipboard", "openInMaps"})
          => UNCHANGED stateVars]_vars

\* CopyCoordinates has just run with no Position held and a Clipboard
\* Service at hand
C9_Witness ==
    /\ lastCall.op = "copyToClipboard"
    /\ position = Null
    /\ clipAvailable
    /\ clipPending = {}

\* the URL JavaScript builds for the coordinates of the modelled readings
C10_ExpectedUrl(p) ==
    CASE p.latitude = 377749 /\ p.longitude = -1224194 ->
             "https://www.google.com/maps?q=37.7749,-122.4194"
      [] p.latitude = -335000 /\ p.longitude = 1510000 ->
             "https://www.google.com/maps?q=-33.5,151"
      [] p.latitude = 5 /\ p.longitude = -70 ->
             "https://www.google.com/maps?q=0.0005,-0.007"
      [] p.latitude = 900000 /\ p.longitude = 0 ->
             "https://www.google.com/maps?q=90,0"

\* C10: with a Position held, OpenInMapViewer opens the URL
\* https://www.google.com/maps?q=<latitude>,<longitude> of the Position held
\* at that moment.
C10_MapsUrl ==
    (lastCall.op = "openInMaps" /\ position # Null) =>
        /\ opened # Null
        /\ opened[1].url = C10_ExpectedUrl(position[1])

\* the URL of the example has just been opened
C10_Witness ==
    /\ lastCall.op = "openInMaps"
    /\ opened # Null
    /\ opened[1].url = "https://www.google.com/maps?q=37.7749,-122.4194"

\* C11: with RequestOnce invoked only through its control, which is
\* disabled while loading, at most one one-shot request is outstanding.
C11_AtMostOneOutstanding ==
    pendingOnce <= 1

\* C12: after teardown no step changes PermissionState, whether the query
\* resolves late or a change is notified late, and no change listener of
\* the widget is registered.
C12_PermissionQuietAfterTeardown ==
    [][/\ unmounted => permissionState' = permissionState
       /\ unmounted' => ~changeListener']_vars

\* the query has just resolved on a widget torn down before
C12_Witness ==
    /\ unmounted
    /\ lastCall.op = "queryThen"
    /\ queryState = "resolved"
    /\ permissionState = Null
    /\ ~changeListener

\* C13: watching and the session handle change only in StartTracking, from
\* idle to watching, and in StopTracking, from watching to idle; RequestOnce
\* and every location callback leave both unchanged.
C13_OnlyStartAndStopChangeSession ==
    [][/\ (watching' # watching \/ watchIdRef' # watchIdRef) =>
              \/ /\ lastCall'.op = "startWatching"
                 /\ ~watching /\ watchIdRef = Null
                 /\ watching' /\ watchIdRef' # Null
              \/ /\ lastCall'.op = "stopWatching"
                 /\ watching /\ watchIdRef # Null
                 /\ ~watching' /\ watchIdRef' = Null
       /\ lastCall'.op \in {"getOneShot", "handleSuccess", "handleError"} =>
              UNCHANGED <<watching, watchIdRef>>]_vars

\* the tracking subscription has just reported a failure and the session
\* is still held
C13_Witness ==
    /\ lastCall.op = "handleError"
    /\ lastCall.from = "watch"
    /\ watching
    /\ watchIdRef # Null
    /\ error # Null

\* C14: if every one-shot request is answered, loading = true leads to
\* loading = false; a failure callback sets error to the failure's message
\* (its string form when it has none), clears loading and issues no request.
C14_LoadingEndsAndFailureIsTerminal ==
    /\ loading ~> ~loading
    /\ [][lastCall'.op = "handleError" =>
             /\ error' = Some(IF lastCall'.arg.message # ""
                              THEN lastCall'.arg.message
                              ELSE "[object GeolocationPositionError]")
             /\ ~loading'
             /\ pendingOnce' <= pendingOnce
             /\ watches' = watches]_vars

\* the one-shot request has just failed with a message and the control is
\* enabled again
C14_Witness ==
    /\ lastCall.op = "handleError"
    /\ lastCall.from = "once"
    /\ error = Some("User denied Geolocation")
    /\ ~loading
    /\ pendingOnce = 0
    /\ ~unmounted

\* C15: with the Location Service unavailable, RequestOnce sets the
\* not-supported error and issues no request: loading stays false, and
\* position, watching and the session handle are unchanged.
C15_RequestOnceUnavailable ==
    [][(lastCall'.op = "getOneShot" /\ ~geoAvailable) =>
          /\ error' = Some("Geolocation is not supported by your browser.")
          /\ ~loading /\ ~loading'
          /\ pendingOnce' = pendingOnce
          /\ UNCHANGED <<position, watching, watchIdRef, watches>>]_vars

C15_Witness ==
    /\ lastCall.op = "getOneShot"
    /\ ~geoAvailable
    /\ error = Some(NotSupportedMsg)
    /\ ~loading
    /\ pendingOnce = 0

\* C16: StopTracking leaves no subscription of the widget active, and
\* while the widget is not tracking and no one-shot request is outstanding
\* no step changes Position.
C16_NoReadingAfterStop ==
    [][/\ lastCall'.op = "stopWatching" => watches' = {}
       /\ (~watching /\ pendingOnce = 0) => position' = position]_vars

\* StopTracking has just cancelled a session that had delivered a reading,
\* and no one-shot request is outstanding
C16_Witness ==
    /\ lastCall.op = "stopWatching"
    /\ lastCall.had # Null
    /\ watches = {}
    /\ pendingOnce = 0
    /\ position # Null

\* C17: a rejected permission query leaves PermissionState unknown and sets
\* no error; PermissionState changes only to the state the Permission
\* Service reports, in the query result or a change notification, while the
\* widget is mounted.
C17_PermissionStateOnlyFromService ==
    [][/\ lastCall'.op = "queryCatch" =>
              /\ permissionState' = Null
              /\ error' = error
       /\ queryState' = "rejected" => permissionState' = Null
       /\ permissionState' # permissionState =>
              /\ lastCall'.op \in {"queryThen", "handleChange"}
              /\ permissionState' = Some(lastCall'.arg)
              /\ ~unmounted]_vars

\* the query has just been rejected on a mounted widget
C17_Witness ==
    /\ lastCall.op = "queryCatch"
    /\ queryState = "rejected"
    /\ permissionState = Null
    /\ ~unmounted

\* C18: after teardown no tracking subscription of the widget is active.
C18_NoWatchAfterTeardown ==
    unmounted => watches = {}

\* C19: a location failure callback leaves the held Position unchanged, and
\* Position changes only in a success callback.
C19_OnlySuccessChangesPosition ==
    [][/\ lastCall'.op = "handleError" => position' = position
       /\ position' # position => lastCall'.op = "handleSuccess"]_vars

\* a failure has just been reported while a Position is held
C19_Witness ==
    /\ lastCall.op = "handleError"
    /\ position # Null
    /\ error # Null

====
